---- MODULE Spec2Model ----
(***************************************************************************)
(* Porymusic: the MIDI note model (midi_editor/models.py), the decoder and *)
(* encoder (midi_editor/midi_io.py), the initialization event injector     *)
(* (midi_editor/midi_init_injector.py), the drum remapper                  *)
(* (midi_editor/drum_remap.py) and the channel handlers of the main window *)
(* (gui/ui_main.py).                                                       *)
(*                                                                         *)
(* A MIDI file is a record [ticks_per_beat, tracks]; a track is a sequence *)
(* of messages; a message is a record with the fields mido gives it (type, *)
(* time = delta time, channel, note, velocity, program, tempo, name), the  *)
(* fields a type does not carry being 0 or "".  A Python dict is a function*)
(* whose DOMAIN is the dict's key set.                                     *)
(***************************************************************************)
EXTENDS Integers, Sequences, FiniteSets, TLC

VARIABLES
    op,                 \* the operation that produced the current state
    args,               \* the arguments that operation was called with
    mid,                \* the MIDI file at hand (decoder/injector input, encoder output)
    project,            \* the MidiProject at hand
    warnings,           \* the warning list returned by save_project_to_midi
    raised,             \* TRUE when the last operation ended with an exception
    rs_drums_by_note,   \* the target drumset handed to the drum remapper
    changed,            \* remap_channel_9_notes_in_place: returned changed count
    unmapped            \* remap_channel_9_notes_in_place: returned unmapped set

vars == <<op, args, mid, project, warnings, raised, rs_drums_by_note, changed, unmapped>>

----------------------------------------------------------------------------
(* Bounds of the model. *)

MaxLen == 3         \* messages in a file drawn as decoder input
MaxDelta == 1       \* largest delta time of a drawn message
MaxNotes == 2       \* notes in a project drawn as encoder input
MaxTick == 2        \* largest tick of a note of a drawn project
MaxDrawnBpm == 320  \* tempo_bpm is drawn from -MaxDrawnBpm..MaxDrawnBpm
MaxInjLen == 2      \* messages before end_of_track in a track drawn as injector input
MaxMelodic == 2     \* largest max_melodic_channels drawn
MaxOpenNotes == 2   \* notes of a project opened in the main window
MaxRemapNotes == 2  \* notes in a list handed to the drum remapper
MaxNameLen == 5     \* messages in a file drawn with track names
MaxRoundTripLen == 4  \* messages in a file drawn for the round trip

----------------------------------------------------------------------------
(* Program constants. *)

DefaultTempoBpm == 120
MinTempoBpm == 30
MaxTempoBpm == 300
DrumChannel == 9
DefaultTicksPerBeat == 480

----------------------------------------------------------------------------
(* Generic helpers. *)

Max(a, b) == IF a >= b THEN a ELSE b
Min(a, b) == IF a <= b THEN a ELSE b

EmptyMap == [k \in {} |-> 0]

\* dict.pop(k, None)
MapPop(m, k) == [x \in DOMAIN m \ {k} |-> m[x]]

\* dict[k] = v
MapSet(m, k, v) == [x \in DOMAIN m \cup {k} |-> IF x = k THEN v ELSE m[x]]

\* dict.setdefault(k, v)
MapSetDefault(m, k, v) == IF k \in DOMAIN m THEN m ELSE MapSet(m, k, v)

\* All sequences over S of length at most n.
SeqsUpTo(S, n) == UNION {[1..k -> S] : k \in 0..n}

\* The ascending list of a finite set of integers (Python sorted()).
RECURSIVE Sorted(_)
Sorted(S) ==
    IF S = {} THEN <<>>
    ELSE LET m == CHOOSE x \in S : \A y \in S : x <= y
         IN <<m>> \o Sorted(S \ {m})

----------------------------------------------------------------------------
(* mido messages. *)

Msg(type, time, channel, note, velocity, program, tempo, name) ==
    [type |-> type, time |-> time, channel |-> channel, note |-> note,
     velocity |-> velocity, program |-> program, tempo |-> tempo, name |-> name]

NoteOn(time, channel, note, velocity) == Msg("note_on", time, channel, note, velocity, 0, 0, "")
NoteOff(time, channel, note, velocity) == Msg("note_off", time, channel, note, velocity, 0, 0, "")
ProgramChange(time, channel, program) == Msg("program_change", time, channel, 0, 0, program, 0, "")
SetTempo(time, tempo) == Msg("set_tempo", time, 0, 0, 0, 0, tempo, "")
TrackName(time, name) == Msg("track_name", time, 0, 0, 0, 0, 0, name)
EndOfTrack(time) == Msg("end_of_track", time, 0, 0, 0, 0, 0, "")

IsMeta(msg) == msg.type \in {"set_tempo", "track_name", "end_of_track"}

\* Python round(): to the nearest integer, ties to the even one, of n / d (d > 0).
RoundDiv(n, d) ==
    LET q == n \div d
        r == n % d
    IN IF 2 * r < d THEN q
       ELSE IF 2 * r > d THEN q + 1
       ELSE IF q % 2 = 0 THEN q ELSE q + 1

MicrosPerMinute == 60000000

\* mido.bpm2tempo: int(round(60 * 1e6 / bpm))
bpm2tempo(bpm) == RoundDiv(MicrosPerMinute, bpm)

\* int(round(mido.tempo2bpm(tempo))): round(60 * 1e6 / tempo)
TruncatedTempo2Bpm(tempo) == MicrosPerMinute \div tempo
RoundedTempo2Bpm(tempo) == RoundDiv(MicrosPerMinute, tempo)

----------------------------------------------------------------------------
(* midi_editor/models.py *)

NoteEvent(start_tick, end_tick, pitch, velocity, channel, track_index) ==
    [start_tick |-> start_tick, end_tick |-> end_tick, pitch |-> pitch,
     velocity |-> velocity, channel |-> channel, track_index |-> track_index]

MidiProject(ticks_per_beat, notes, channel_instrument_id, tempo_bpm, channel_track_name, muted_channels) ==
    [ticks_per_beat |-> ticks_per_beat, notes |-> notes,
     channel_instrument_id |-> channel_instrument_id, tempo_bpm |-> tempo_bpm,
     channel_track_name |-> channel_track_name, muted_channels |-> muted_channels]

used_channels(p) == Sorted({p.notes[i].channel : i \in 1..Len(p.notes)})

RECURSIVE NotesNotOn(_, _)
NotesNotOn(notes, ch) ==
    IF notes = <<>> THEN <<>>
    ELSE (IF Head(notes).channel # ch THEN <<Head(notes)>> ELSE <<>>)
         \o NotesNotOn(Tail(notes), ch)

delete_channel_keeps_label(p, ch) ==
    [p EXCEPT !.notes = NotesNotOn(p.notes, ch),
              !.channel_instrument_id = MapPop(p.channel_instrument_id, ch)]

delete_channel(p, ch) ==
    [p EXCEPT !.notes = NotesNotOn(p.notes, ch),
              !.channel_instrument_id = MapPop(p.channel_instrument_id, ch),
              !.channel_track_name = MapPop(p.channel_track_name, ch)]

merge_channel_inherits_id(p, src, dst) ==
    IF src = dst THEN p
    ELSE LET names == p.channel_track_name
             ids == p.channel_instrument_id
         IN [p EXCEPT
               !.notes = [i \in 1..Len(p.notes) |->
                            IF p.notes[i].channel = src
                            THEN [p.notes[i] EXCEPT !.channel = dst] ELSE p.notes[i]],
               !.channel_instrument_id =
                   MapPop(IF src \in DOMAIN ids /\ dst \notin DOMAIN ids
                          THEN MapSet(ids, dst, ids[src]) ELSE ids, src),
               !.channel_track_name =
                   MapPop(IF src \in DOMAIN names /\ dst \notin DOMAIN names
                          THEN MapSet(names, dst, names[src]) ELSE names, src)]

merge_channel_into(p, src, dst) ==
    IF src = dst THEN p
    ELSE LET names == p.channel_track_name
         IN [p EXCEPT
               !.notes = [i \in 1..Len(p.notes) |->
                            IF p.notes[i].channel = src
                            THEN [p.notes[i] EXCEPT !.channel = dst] ELSE p.notes[i]],
               !.channel_instrument_id = MapPop(p.channel_instrument_id, src),
               !.channel_track_name =
                   MapPop(IF src \in DOMAIN names /\ dst \notin DOMAIN names
                          THEN MapSet(names, dst, names[src]) ELSE names, src)]

\* The channel of a note after swap_channels(a, b): if ... elif ...
SwappedChannelNoElif(ch, a, b) ==
    LET c == IF ch = a THEN b ELSE ch
    IN IF c = b THEN a ELSE c
SwappedChannel(ch, a, b) == IF ch = a THEN b ELSE IF ch = b THEN a ELSE ch

SwapEntriesStale(m, a, b) ==
    LET m1 == IF a \notin DOMAIN m THEN m ELSE MapSet(m, b, m[a])
    IN IF b \notin DOMAIN m THEN m1 ELSE MapSet(m1, a, m[b])

\* The exchange of the entries of a and b in one of the two dicts: .get() of
\* both first, then pop or assignment for b, then for a.
SwapEntries(m, a, b) ==
    LET m1 == IF a \notin DOMAIN m THEN MapPop(m, b) ELSE MapSet(m, b, m[a])
    IN IF b \notin DOMAIN m THEN MapPop(m1, a) ELSE MapSet(m1, a, m[b])

swap_channels_moves_mute(p, a, b) ==
    IF a = b THEN p
    ELSE [p EXCEPT
            !.notes = [i \in 1..Len(p.notes) |->
                         [p.notes[i] EXCEPT !.channel = SwappedChannel(@, a, b)]],
            !.channel_instrument_id = SwapEntries(p.channel_instrument_id, a, b),
            !.channel_track_name = SwapEntries(p.channel_track_name, a, b),
            !.muted_channels = {SwappedChannel(c, a, b) : c \in p.muted_channels}]

swap_channels(p, a, b) ==
    IF a = b THEN p
    ELSE [p EXCEPT
            !.notes = [i \in 1..Len(p.notes) |->
                         [p.notes[i] EXCEPT !.channel = SwappedChannel(@, a, b)]],
            !.channel_instrument_id = SwapEntries(p.channel_instrument_id, a, b),
            !.channel_track_name = SwapEntries(p.channel_track_name, a, b)]

----------------------------------------------------------------------------
(* midi_editor/midi_io.py: the decoder. *)

Clamp(bpm) == Max(MinTempoBpm, Min(MaxTempoBpm, bpm))

\* The messages of all tracks, track after track.
RECURSIVE Flatten(_)
Flatten(tracks) == IF tracks = <<>> THEN <<>> ELSE Head(tracks) \o Flatten(Tail(tracks))

extract_tempo_bpm_last(m) ==
    LET all == Flatten(m.tracks)
        hits == {i \in 1..Len(all) : all[i].type = "set_tempo"}
    IN IF hits = {} THEN DefaultTempoBpm
       ELSE LET last == CHOOSE i \in hits : \A j \in hits : i >= j
            IN Clamp(RoundedTempo2Bpm(all[last].tempo))

extract_tempo_bpm(m) ==
    LET all == Flatten(m.tracks)
        hits == {i \in 1..Len(all) : all[i].type = "set_tempo"}
    IN IF hits = {} THEN DefaultTempoBpm
       ELSE LET first == CHOOSE i \in hits : \A j \in hits : i <= j
            IN Clamp(RoundedTempo2Bpm(all[first].tempo))

\* `active` is the dict of the decoder: a list, in the order the keys were first
\* inserted, of [key |-> <<channel, pitch>>, stack |-> list of <<start_tick, velocity>>].
ActiveIndex(active, key) ==
    IF \E i \in 1..Len(active) : active[i].key = key
    THEN CHOOSE i \in 1..Len(active) : active[i].key = key
    ELSE 0

\* active.setdefault(key, []).append(entry)
ActivePush(active, key, entry) ==
    LET i == ActiveIndex(active, key)
    IN IF i = 0 THEN Append(active, [key |-> key, stack |-> <<entry>>])
       ELSE [active EXCEPT ![i].stack = Append(@, entry)]

\* The index in the stack of the entry a note_off takes: active[key].pop(0)
PopLast(stack) == Len(stack)
PopIndex(stack) == 1

RemoveAt(s, i) == SubSeq(s, 1, i - 1) \o SubSeq(s, i + 1, Len(s))

\* The test that decides whether a closed note is emitted: abs_tick > start_tick
EmitsAlways(abs_tick, start_tick) == TRUE
Emits(abs_tick, start_tick) == abs_tick > start_tick

\* DecodeMsg without the `key in active and active[key]` test: a closing message
\* that finds nothing pending emits a note from tick 0.
DecodeMsgOrphanOff(st, msg, t_idx) ==
    LET abs_tick == st.abs_tick + msg.time
        key == <<msg.channel, msg.note>>
        i == ActiveIndex(st.active, key)
    IN IF msg.type = "note_on" /\ msg.velocity > 0
       THEN [abs_tick |-> abs_tick,
             active |-> ActivePush(st.active, key, <<abs_tick, msg.velocity>>),
             notes |-> st.notes]
       ELSE IF msg.type = "note_off" \/ (msg.type = "note_on" /\ msg.velocity = 0)
       THEN IF i # 0 /\ st.active[i].stack # <<>>
            THEN LET e == st.active[i].stack[1]
                 IN [abs_tick |-> abs_tick,
                     active |-> [st.active EXCEPT ![i].stack = Tail(@)],
                     notes |-> IF abs_tick > e[1]
                               THEN Append(st.notes,
                                        NoteEvent(e[1], abs_tick, msg.note, e[2], msg.channel, t_idx))
                               ELSE st.notes]
            ELSE [abs_tick |-> abs_tick,
                  active |-> st.active,
                  notes |-> IF abs_tick > 0
                            THEN Append(st.notes,
                                     NoteEvent(0, abs_tick, msg.note, 100, msg.channel, t_idx))
                            ELSE st.notes]
       ELSE [st EXCEPT !.abs_tick = abs_tick]

\* One turn of the loop over the messages of a track; st = [abs_tick, active, notes].
DecodeMsg(st, msg, t_idx) ==
    LET abs_tick == st.abs_tick + msg.time
        key == <<msg.channel, msg.note>>
        i == ActiveIndex(st.active, key)
    IN IF msg.type = "note_on" /\ msg.velocity > 0
       THEN [abs_tick |-> abs_tick,
             active |-> ActivePush(st.active, key, <<abs_tick, msg.velocity>>),
             notes |-> st.notes]
       ELSE IF msg.type = "note_off" \/ (msg.type = "note_on" /\ msg.velocity = 0)
       THEN IF i # 0 /\ st.active[i].stack # <<>>
            THEN LET j == PopIndex(st.active[i].stack)
                     e == st.active[i].stack[j]
                 IN [abs_tick |-> abs_tick,
                     active |-> [st.active EXCEPT ![i].stack = RemoveAt(@, j)],
                     notes |-> IF Emits(abs_tick, e[1])
                               THEN Append(st.notes,
                                        NoteEvent(e[1], abs_tick, msg.note, e[2], msg.channel, t_idx))
                               ELSE st.notes]
            ELSE [st EXCEPT !.abs_tick = abs_tick]
       ELSE [st EXCEPT !.abs_tick = abs_tick]

RECURSIVE DecodeMsgs(_, _, _)
DecodeMsgs(st, msgs, t_idx) ==
    IF msgs = <<>> THEN st
    ELSE DecodeMsgs(DecodeMsg(st, Head(msgs), t_idx), Tail(msgs), t_idx)

\* The end tick given to a note still pending at the end of its track.
CloseAtStart(start_tick, abs_tick) == Max(start_tick, abs_tick)
CloseTick(start_tick, abs_tick) == Max(start_tick + 1, abs_tick)

RECURSIVE CloseStuckFirstOnly(_, _, _)
CloseStuckFirstOnly(active, abs_tick, t_idx) ==
    IF active = <<>> THEN <<>>
    ELSE LET a == Head(active)
         IN (IF a.stack = <<>> THEN <<>>
             ELSE <<NoteEvent(a.stack[1][1], Max(a.stack[1][1] + 1, abs_tick),
                              a.key[2], a.stack[1][2], a.key[1], t_idx)>>)
            \o CloseStuckFirstOnly(Tail(active), abs_tick, t_idx)

\* "Close any stuck notes at end of track"
RECURSIVE CloseStuck(_, _, _)
CloseStuck(active, abs_tick, t_idx) ==
    IF active = <<>> THEN <<>>
    ELSE LET a == Head(active)
         IN [k \in 1..Len(a.stack) |->
                NoteEvent(a.stack[k][1], CloseTick(a.stack[k][1], abs_tick),
                          a.key[2], a.stack[k][2], a.key[1], t_idx)]
            \o CloseStuck(Tail(active), abs_tick, t_idx)

\* The notes of one track (the body of `for t_idx, track in enumerate(mid.tracks)`).
DecodeTrack(track, t_idx) ==
    LET st == DecodeMsgs([abs_tick |-> 0, active |-> <<>>, notes |-> <<>>], track, t_idx)
    IN st.notes \o CloseStuck(st.active, st.abs_tick, t_idx)

\* DecodeTracks with `active` set up once, before the loop over the tracks.
RECURSIVE DecodeSharedFrom(_, _, _)
DecodeSharedFrom(active, tracks, t_idx) ==
    IF tracks = <<>> THEN <<>>
    ELSE LET st == DecodeMsgs([abs_tick |-> 0, active |-> active, notes |-> <<>>],
                              Head(tracks), t_idx)
         IN st.notes \o CloseStuck(st.active, st.abs_tick, t_idx)
            \o DecodeSharedFrom(st.active, Tail(tracks), t_idx + 1)

DecodeTracksShared(tracks, t_idx) == DecodeSharedFrom(<<>>, tracks, t_idx)

RECURSIVE DecodeTracks(_, _)
DecodeTracks(tracks, t_idx) ==
    IF tracks = <<>> THEN <<>>
    ELSE DecodeTrack(Head(tracks), t_idx) \o DecodeTracks(Tail(tracks), t_idx + 1)

\* The channels that the voice messages of a track reference.
HasChannel(msg) == msg.type \in {"note_on", "note_off", "program_change"}

\* str.strip() on the names the model draws.
Strip(name) ==
    IF name \in {"", " "} THEN ""
    ELSE IF name = " Lead " THEN "Lead"
    ELSE name

\* The name of a track: that of its first track_name whose stripped name is not
\* empty (`not track_name` lets a later name in while the kept one is None).
TrackNameOf(track) ==
    LET hits == {i \in 1..Len(track) :
                    track[i].type = "track_name" /\ Strip(track[i].name) # ""}
    IN IF hits = {} THEN ""
       ELSE Strip(track[CHOOSE i \in hits : \A j \in hits : i <= j].name)

RECURSIVE ExtractNamesLastWins(_, _)
ExtractNamesLastWins(tracks, out) ==
    IF tracks = <<>> THEN out
    ELSE LET tr == Head(tracks)
             name == TrackNameOf(tr)
             chans == {tr[i].channel : i \in {j \in 1..Len(tr) : HasChannel(tr[j])}}
             next == IF name = "" THEN out
                     ELSE [c \in DOMAIN out \cup chans |->
                              IF c \in chans THEN name ELSE out[c]]
         IN ExtractNamesLastWins(Tail(tracks), next)

RECURSIVE ExtractNames(_, _)
ExtractNames(tracks, out) ==
    IF tracks = <<>> THEN out
    ELSE LET tr == Head(tracks)
             name == TrackNameOf(tr)
             chans == {tr[i].channel : i \in {j \in 1..Len(tr) : HasChannel(tr[j])}}
             next == IF name = "" THEN out
                     ELSE [c \in DOMAIN out \cup chans |->
                              IF c \in DOMAIN out THEN out[c] ELSE name]
         IN ExtractNames(Tail(tracks), next)

extract_channel_track_names(m) == ExtractNames(m.tracks, EmptyMap)

load_midi_as_notes(m) ==
    MidiProject(m.ticks_per_beat, DecodeTracks(m.tracks, 0), EmptyMap,
                extract_tempo_bpm(m), extract_channel_track_names(m), {})

----------------------------------------------------------------------------
(* midi_editor/midi_io.py: the encoder. *)

\* mido.Message(...) raises ValueError unless channel is in 0..15 and every data
\* byte (note, velocity, program) is in 0..127.
MaxMidiChannel == 15
MaxDataByte == 127

ValidMessage(msg) ==
    /\ msg.channel \in 0..MaxMidiChannel
    /\ msg.note \in 0..MaxDataByte
    /\ msg.velocity \in 0..MaxDataByte
    /\ msg.program \in 0..MaxDataByte

Flags(normalize_to_channels_0_9, drop_channels_over_9, force_programs_at_start, write_tempo) ==
    [normalize_to_channels_0_9 |-> normalize_to_channels_0_9,
     drop_channels_over_9 |-> drop_channels_over_9,
     force_programs_at_start |-> force_programs_at_start,
     write_tempo |-> write_tempo]

RECURSIVE NotesUpTo9(_)
NotesUpTo9(notes) ==
    IF notes = <<>> THEN <<>>
    ELSE (IF Head(notes).channel <= 9 THEN <<Head(notes)>> ELSE <<>>) \o NotesUpTo9(Tail(notes))

OverChannels(notes) == Sorted({notes[i].channel : i \in {j \in 1..Len(notes) : notes[j].channel > 9}})

OverWarning(over) == [text |-> "Channels over 9 present. Exportable channels are 0-9.", channels |-> over]
DropWarning == [text |-> "Dropped notes on channels > 9 during export.", channels |-> <<>>]

\* The warnings of the channel filter.
SaveWarnings(p, f) ==
    LET over == OverChannels(p.notes)
    IN IF f.normalize_to_channels_0_9 /\ over # <<>>
       THEN <<OverWarning(over)>> \o (IF f.drop_channels_over_9 THEN <<DropWarning>> ELSE <<>>)
       ELSE <<>>

\* The notes the channel filter retains.
RetainedNotes(p, f) ==
    IF f.normalize_to_channels_0_9 /\ OverChannels(p.notes) # <<>> /\ f.drop_channels_over_9
    THEN NotesUpTo9(p.notes)
    ELSE p.notes

\* The program changes at tick 0, for sorted(project.channel_instrument_id.items()).
RECURSIVE ProgramEvents(_, _, _)
ProgramEvents(chans, ci, f) ==
    IF chans = <<>> THEN <<>>
    ELSE (IF f.normalize_to_channels_0_9 /\ Head(chans) > 9 THEN <<>>
          ELSE <<[tick |-> 0, msg |-> ProgramChange(0, Head(chans), ci[Head(chans)])]>>)
         \o ProgramEvents(Tail(chans), ci, f)

RECURSIVE NoteEventsOffEarly(_)
NoteEventsOffEarly(notes) ==
    IF notes = <<>> THEN <<>>
    ELSE LET n == Head(notes)
         IN <<[tick |-> n.start_tick, msg |-> NoteOn(0, n.channel, n.pitch, n.velocity)],
              [tick |-> n.end_tick - 1, msg |-> NoteOff(0, n.channel, n.pitch, 0)]>>
            \o NoteEventsOffEarly(Tail(notes))

\* A note_on at start_tick and a note_off at end_tick for every retained note.
RECURSIVE NoteEvents(_)
NoteEvents(notes) ==
    IF notes = <<>> THEN <<>>
    ELSE LET n == Head(notes)
         IN <<[tick |-> n.start_tick, msg |-> NoteOn(0, n.channel, n.pitch, n.velocity)],
              [tick |-> n.end_tick, msg |-> NoteOff(0, n.channel, n.pitch, 0)]>>
            \o NoteEvents(Tail(notes))

\* sort_key: (tick, pri) with pri -1 for a note_off and 0 for everything else.
sort_key_no_pri(item) == <<item.tick, 0>>
sort_key(item) == <<item.tick, IF item.msg.type = "note_off" THEN -1 ELSE 0>>

KeyLeq(a, b) == a[1] < b[1] \/ (a[1] = b[1] /\ a[2] <= b[2])

\* An unstable sort: an item goes before the items of its own key.
InsertSortedBefore(sorted, item) ==
    LET n == Cardinality({i \in 1..Len(sorted) :
                            /\ KeyLeq(sort_key(sorted[i]), sort_key(item))
                            /\ sort_key(sorted[i]) # sort_key(item)})
    IN SubSeq(sorted, 1, n) \o <<item>> \o SubSeq(sorted, n + 1, Len(sorted))

\* list.sort(key=sort_key): stable, so an item goes after every item whose key
\* is not greater than its own.
InsertSorted(sorted, item) ==
    LET n == Cardinality({i \in 1..Len(sorted) : KeyLeq(sort_key(sorted[i]), sort_key(item))})
    IN SubSeq(sorted, 1, n) \o <<item>> \o SubSeq(sorted, n + 1, Len(sorted))

RECURSIVE SortEventsFrom(_, _)
SortEventsFrom(sorted, rest) ==
    IF rest = <<>> THEN sorted
    ELSE SortEventsFrom(InsertSorted(sorted, Head(rest)), Tail(rest))

SortEventsUnsorted(events) == events
SortEvents(events) == SortEventsFrom(<<>>, events)

\* "Convert absolute -> delta times and append"
RECURSIVE ToDeltasNoUpdate(_, _)
ToDeltasNoUpdate(events, last_tick) ==
    IF events = <<>> THEN <<>>
    ELSE LET e == Head(events)
         IN <<[e.msg EXCEPT !.time = Max(0, e.tick - last_tick)]>>
            \o ToDeltasNoUpdate(Tail(events), last_tick)

RECURSIVE ToDeltas(_, _)
ToDeltas(events, last_tick) ==
    IF events = <<>> THEN <<>>
    ELSE LET e == Head(events)
         IN <<[e.msg EXCEPT !.time = Max(0, e.tick - last_tick)]>>
            \o ToDeltas(Tail(events), e.tick)

\* The absolute-time events before sorting.
SaveEvents(p, f) ==
    (IF f.force_programs_at_start
     THEN ProgramEvents(Sorted(DOMAIN p.channel_instrument_id), p.channel_instrument_id, f)
     ELSE <<>>)
    \o NoteEvents(RetainedNotes(p, f))

\* The track written: tempo, the sorted events as deltas, end_of_track.
SaveTrack(p, f) ==
    (IF f.write_tempo THEN <<SetTempo(0, bpm2tempo(Clamp(p.tempo_bpm)))>> ELSE <<>>)
    \o ToDeltas(SortEvents(SaveEvents(p, f)), 0)
    \o <<EndOfTrack(0)>>

\* A mido.Message constructor of the call raises ValueError.
SaveRaises(p, f) ==
    LET events == SaveEvents(p, f)
    IN \E i \in 1..Len(events) : ~ValidMessage(events[i].msg)

\* save_project_to_midi: what it returns, the file it writes, whether it raises.
save_project_to_midi(p, f) ==
    IF SaveRaises(p, f)
    THEN [raised |-> TRUE, warnings |-> <<>>, tracks |-> <<>>]
    ELSE [raised |-> FALSE, warnings |-> SaveWarnings(p, f), tracks |-> <<SaveTrack(p, f)>>]

----------------------------------------------------------------------------
(* midi_editor/midi_init_injector.py *)

has_meta_set_tempo_never(track) == FALSE
has_meta_set_tempo_at_0(track) ==
    \E i \in 1..Len(track) :
        track[i].time = 0 /\ IsMeta(track[i]) /\ track[i].type = "set_tempo"

has_program_change_at_0(track, channel) ==
    \E i \in 1..Len(track) :
        /\ track[i].time = 0
        /\ ~IsMeta(track[i])
        /\ track[i].type = "program_change"
        /\ track[i].channel = channel

InjectArgs(tempo_bpm, program_base, max_melodic_channels, drum_midi_channel) ==
    [tempo_bpm |-> tempo_bpm, program_base |-> program_base,
     max_melodic_channels |-> max_melodic_channels, drum_midi_channel |-> drum_midi_channel]

\* "Melodic program changes at time 0": for ch in range(from, max_melodic_channels)
RECURSIVE MelodicInserts(_, _, _)
MelodicInserts(t0, a, ch) ==
    IF ch >= a.max_melodic_channels THEN <<>>
    ELSE (IF has_program_change_at_0(t0, ch) THEN <<>>
          ELSE <<ProgramChange(0, ch, a.program_base + ch)>>)
         \o MelodicInserts(t0, a, ch + 1)

InsertsDrumFirst(t0, a) ==
    (IF a.drum_midi_channel \in 0..15 /\ ~has_program_change_at_0(t0, a.drum_midi_channel)
     THEN <<ProgramChange(0, a.drum_midi_channel, 0)>>
     ELSE <<>>)
    \o (IF has_meta_set_tempo_at_0(t0) THEN <<>> ELSE <<SetTempo(0, bpm2tempo(a.tempo_bpm))>>)
    \o MelodicInserts(t0, a, 0)

\* The list `inserts`; drum_midi_channel None is drawn as -1, which passes
\* `is not None` and fails `0 <= drum_ch <= 15`, to the same effect.
Inserts(t0, a) ==
    (IF has_meta_set_tempo_at_0(t0) THEN <<>> ELSE <<SetTempo(0, bpm2tempo(a.tempo_bpm))>>)
    \o MelodicInserts(t0, a, 0)
    \o (IF a.drum_midi_channel \in 0..15 /\ ~has_program_change_at_0(t0, a.drum_midi_channel)
        THEN <<ProgramChange(0, a.drum_midi_channel, 0)>>
        ELSE <<>>)

\* mido writes a track through fix_end_of_track: an end_of_track inside the
\* track is removed, its time passing to the next message, and one is appended.
RECURSIVE FixEndOfTrack(_, _)
FixEndOfTrack(track, accum) ==
    IF track = <<>> THEN <<EndOfTrack(accum)>>
    ELSE IF Head(track).type = "end_of_track"
         THEN FixEndOfTrack(Tail(track), accum + Head(track).time)
         ELSE <<[Head(track) EXCEPT !.time = @ + accum]>> \o FixEndOfTrack(Tail(track), 0)

\* mid.save(): every track as mido writes it.
SavedTracks(tracks) == [t \in 1..Len(tracks) |-> FixEndOfTrack(tracks[t], 0)]

\* mido raises for a tempo outside 0..0xFFFFFF (and bpm2tempo divides by tempo_bpm).
MaxTempoValue == 16777215

\* inject_init_events: the tracks of the file it writes, or that it raises.
inject_init_events(m, a) ==
    LET tracks == IF m.tracks = <<>> THEN <<<<>>>> ELSE m.tracks
        t0 == tracks[1]
        inserts == IF a.tempo_bpm = 0 THEN <<>> ELSE Inserts(t0, a)
        bad == \/ a.tempo_bpm = 0
               \/ \E i \in 1..Len(inserts) :
                     \/ ~ValidMessage(inserts[i])
                     \/ inserts[i].tempo \notin 0..MaxTempoValue
    IN IF bad THEN [raised |-> TRUE, tracks |-> <<>>]
       ELSE [raised |-> FALSE,
             tracks |-> SavedTracks([tracks EXCEPT ![1] = inserts \o t0])]

----------------------------------------------------------------------------
(* midi_editor/drum_remap.py *)

GmNotes == {35, 36, 38, 39, 40, 42, 46, 49, 55, 57}

GM_NOTE_TO_CATEGORY ==
    [n \in GmNotes |->
        IF n \in {35, 36} THEN "kick"
        ELSE IF n \in {38, 40} THEN "snare"
        ELSE IF n = 39 THEN "clap"
        ELSE IF n \in {42, 46} THEN "hihat"
        ELSE "crash"]

PreferredCategories == {"kick", "snare", "hihat", "crash", "clap", "tom", "bell", "shaker"}

\* The dict `preferred` of _preferred_rs_note
PreferredNote ==
    [c \in PreferredCategories |->
        IF c = "kick" THEN 36
        ELSE IF c = "snare" THEN 38
        ELSE IF c = "hihat" THEN 42
        ELSE IF c = "crash" THEN 55
        ELSE IF c = "clap" THEN 39
        ELSE IF c = "tom" THEN 45
        ELSE IF c = "bell" THEN 53
        ELSE 54]

\* _norm on the names the model draws (lower case, punctuation to blanks).
Norm(name) ==
    IF name = "Empty Slot" THEN "empty slot"
    ELSE IF name = "Drum" THEN "drum"
    ELSE name

DrumDef(name, category) == [name |-> name, category |-> category]

\* _build_rs_category_to_notes: the target notes of a category (category None
\* is drawn as ""); the list is sorted, so its first note is the lowest.
EligibleNotes(rs, cat) ==
    {k \in DOMAIN rs :
        /\ rs[k].name # ""
        /\ rs[k].category # ""
        /\ rs[k].category # "empty"
        /\ Norm(rs[k].name) # "empty slot"
        /\ rs[k].category = cat}

\* _preferred_rs_note; 0 stands for None.
preferred_rs_note(cat, rs) ==
    LET notes == EligibleNotes(rs, cat)
    IN IF notes = {} THEN 0
       ELSE IF cat \in PreferredCategories /\ PreferredNote[cat] \in notes
            THEN PreferredNote[cat]
            ELSE CHOOSE n \in notes : \A x \in notes : n <= x

build_gm_to_rs(rs) ==
    LET mapped == {g \in GmNotes : preferred_rs_note(GM_NOTE_TO_CATEGORY[g], rs) # 0}
    IN [g \in mapped |-> preferred_rs_note(GM_NOTE_TO_CATEGORY[g], rs)]

remap_unmapped_ignores_valid(notes, rs) ==
    LET gm_to_rs == build_gm_to_rs(rs)
        nine == {i \in 1..Len(notes) : notes[i].channel = 9}
    IN [notes |-> [i \in 1..Len(notes) |->
                     IF i \in nine /\ notes[i].pitch \in DOMAIN gm_to_rs
                     THEN [notes[i] EXCEPT !.pitch = gm_to_rs[@]]
                     ELSE notes[i]],
        changed |-> Cardinality({i \in nine : /\ notes[i].pitch \in DOMAIN gm_to_rs
                                               /\ gm_to_rs[notes[i].pitch] # notes[i].pitch}),
        unmapped |-> {notes[i].pitch : i \in {j \in nine : notes[j].pitch \notin DOMAIN gm_to_rs}}]

\* remap_channel_9_notes_in_place: the notes after the call and what it returns.
remap_channel_9_notes_in_place(notes, rs) ==
    LET gm_to_rs == build_gm_to_rs(rs)
        rs_valid == DOMAIN rs
        nine == {i \in 1..Len(notes) : notes[i].channel = 9}
    IN [notes |-> [i \in 1..Len(notes) |->
                     IF i \in nine /\ notes[i].pitch \in DOMAIN gm_to_rs
                     THEN [notes[i] EXCEPT !.pitch = gm_to_rs[@]]
                     ELSE notes[i]],
        changed |-> Cardinality({i \in nine : /\ notes[i].pitch \in DOMAIN gm_to_rs
                                               /\ gm_to_rs[notes[i].pitch] # notes[i].pitch}),
        unmapped |-> {notes[i].pitch : i \in {j \in nine :
                                                 /\ notes[j].pitch \notin DOMAIN gm_to_rs
                                                 /\ notes[j].pitch \notin rs_valid}}]

----------------------------------------------------------------------------
(* Decoder inputs: files of note messages. *)

NoteKeys == {<<0, 60>>, <<9, 38>>}
Velocities == {0, 100}

NoteMsgs ==
    {NoteOn(d, k[1], k[2], v) : d \in 0..MaxDelta, k \in NoteKeys, v \in Velocities}
    \cup {NoteOff(d, k[1], k[2], 0) : d \in 0..MaxDelta, k \in NoteKeys}

\* The message lists of exactly n messages.
NoteTracks(n) == [1..n -> NoteMsgs]

MidiFile(tracks) == [ticks_per_beat |-> DefaultTicksPerBeat, tracks |-> tracks]

NoProject == MidiProject(DefaultTicksPerBeat, <<>>, EmptyMap, DefaultTempoBpm, EmptyMap, {})
NoFile == [ticks_per_beat |-> DefaultTicksPerBeat, tracks |-> <<>>]
NoArgs == [none |-> TRUE]

Idle ==
    /\ warnings = <<>>
    /\ raised = FALSE
    /\ rs_drums_by_note = EmptyMap
    /\ changed = 0
    /\ unmapped = {}

InitDecode ==
    /\ op = "file"
    /\ args = NoArgs
    /\ \E n1 \in 0..MaxLen : \E n2 \in 0..(MaxLen - n1) :
          \E t1 \in NoteTracks(n1) : \E t2 \in NoteTracks(n2) :
             mid \in {MidiFile(<<>>), MidiFile(<<t1>>), MidiFile(<<t1, t2>>)}
    /\ project = NoProject
    /\ Idle

\* MainWindow.open_midi up to the call of load_midi_as_notes
Load ==
    /\ op = "file"
    /\ op' = "load_midi_as_notes"
    /\ project' = load_midi_as_notes(mid)
    /\ UNCHANGED <<args, mid, warnings, raised, rs_drums_by_note, changed, unmapped>>

NextDecode == Load

SpecDecode == InitDecode /\ [][NextDecode]_vars

----------------------------------------------------------------------------
(* The decoder's claims. *)

\* C1: every note of a decoded project has end_tick > start_tick, however it was
\* closed (note_off, note_on with velocity 0, end of track).
C1_PositiveDuration ==
    op = "load_midi_as_notes" =>
        \A i \in 1..Len(project.notes) :
            project.notes[i].end_tick > project.notes[i].start_tick

\* C1 witness: a decoded file in which a key was closed at the tick it was opened
\* (the note is dropped) and another note was closed by the end of its track.
C1_Witness ==
    /\ op = "load_midi_as_notes"
    /\ \E t \in 1..Len(mid.tracks) :
          /\ Len(mid.tracks[t]) = 3
          /\ mid.tracks[t][1].type = "note_on" /\ mid.tracks[t][1].velocity > 0
          /\ mid.tracks[t][2].type = "note_off" /\ mid.tracks[t][2].time = 0
          /\ mid.tracks[t][2].channel = mid.tracks[t][1].channel
          /\ mid.tracks[t][3].type = "note_on" /\ mid.tracks[t][3].velocity > 0
          /\ mid.tracks[t][3].time = 0
    /\ Len(project.notes) = 1

\* What the decoder reads in a message, told from the message alone.
IsOn(msg) == msg.type = "note_on" /\ msg.velocity > 0
IsOff(msg) == msg.type = "note_off" \/ (msg.type = "note_on" /\ msg.velocity = 0)
KeyOf(msg) == <<msg.channel, msg.note>>

\* The absolute tick of the i-th message of a track: the sum of the delta times.
RECURSIVE AbsTick(_, _)
AbsTick(tr, i) == IF i = 0 THEN 0 ELSE AbsTick(tr, i - 1) + tr[i].time

\* The note_on messages of key k before the i-th message.
OnsBefore(tr, k, i) == {j \in 1..(i - 1) : IsOn(tr[j]) /\ KeyOf(tr[j]) = k}

\* How many closing messages of key k before the i-th found a note_on pending.
RECURSIVE PopsBefore(_, _, _)
PopsBefore(tr, k, i) ==
    IF i <= 1 THEN 0
    ELSE LET p == PopsBefore(tr, k, i - 1)
         IN IF IsOff(tr[i - 1]) /\ KeyOf(tr[i - 1]) = k
               /\ Cardinality(OnsBefore(tr, k, i - 1)) > p
            THEN p + 1 ELSE p

\* The number of note_on messages of tr[i]'s key pending when tr[i] is read.
PendingAt(tr, i) ==
    Cardinality(OnsBefore(tr, KeyOf(tr[i]), i)) - PopsBefore(tr, KeyOf(tr[i]), i)

\* The oldest note_on of tr[i]'s key still pending when tr[i] is read, pairing
\* first in, first out: the (p+1)-th note_on of the key after p closings.
OldestPending(tr, i) ==
    LET k == KeyOf(tr[i])
        ons == OnsBefore(tr, k, i)
    IN CHOOSE j \in ons : Cardinality({x \in ons : x < j}) = PopsBefore(tr, k, i)

\* tr[i] closes a pending note_on into a note of positive duration.
Closes(tr, i) ==
    /\ IsOff(tr[i])
    /\ PendingAt(tr, i) > 0
    /\ AbsTick(tr, i) > AbsTick(tr, OldestPending(tr, i))

RECURSIVE NotesOfTrack(_, _)
NotesOfTrack(notes, t_idx) ==
    IF notes = <<>> THEN <<>>
    ELSE (IF Head(notes).track_index = t_idx THEN <<Head(notes)>> ELSE <<>>)
         \o NotesOfTrack(Tail(notes), t_idx)

\* C2: a closing message (note_off, or note_on with velocity 0) that finds note_on
\* messages of its key pending in its track is paired with the oldest of them: the
\* note it emits has that note_on's tick and velocity and the current tick as end.
C2_FifoPairing ==
    op = "load_midi_as_notes" =>
        \A t \in 1..Len(mid.tracks) :
            LET tr == mid.tracks[t]
                got == NotesOfTrack(project.notes, t - 1)
            IN \A i \in 1..Len(tr) :
                  Closes(tr, i) =>
                      LET r == Cardinality({x \in 1..i : Closes(tr, x)})
                          j == OldestPending(tr, i)
                      IN /\ r <= Len(got)
                         /\ got[r] = NoteEvent(AbsTick(tr, j), AbsTick(tr, i), tr[i].note,
                                               tr[j].velocity, tr[i].channel, t - 1)

\* C2 witness: a decoded track in which a closing message found two note_on
\* messages of its key pending, opened at different ticks.
C2_Witness ==
    /\ op = "load_midi_as_notes"
    /\ \E t \in 1..Len(mid.tracks) : \E i \in 1..Len(mid.tracks[t]) :
          LET tr == mid.tracks[t]
          IN /\ Closes(tr, i)
             /\ PendingAt(tr, i) >= 2
             /\ \E a, b \in OnsBefore(tr, KeyOf(tr[i]), i) : AbsTick(tr, a) # AbsTick(tr, b)

\* The note_on messages of a track still pending when the track ends: of each
\* key, those that the closing messages of the key did not take.
PendingAtEnd(tr) ==
    {j \in 1..Len(tr) :
        /\ IsOn(tr[j])
        /\ Cardinality(OnsBefore(tr, KeyOf(tr[j]), j)) >= PopsBefore(tr, KeyOf(tr[j]), Len(tr) + 1)}

\* The note that the end of track t_idx makes of the pending note_on tr[j].
ClosedAtEnd(tr, j, t_idx) ==
    LET start_tick == AbsTick(tr, j)
        final_tick == AbsTick(tr, Len(tr))
    IN NoteEvent(start_tick,
                 IF start_tick + 1 > final_tick THEN start_tick + 1 ELSE final_tick,
                 tr[j].note, tr[j].velocity, tr[j].channel, t_idx)

\* C17: every note_on still pending when its track ends is emitted, never
\* dropped, as a note whose end_tick is max(start_tick + 1, final_tick), final_tick
\* being the absolute tick of the last event of the track: the notes of a track
\* are those of its closing messages followed by one such note for each pending
\* note_on.
C17_StuckNotesClosed ==
    op = "load_midi_as_notes" =>
        \A t \in 1..Len(mid.tracks) :
            LET tr == mid.tracks[t]
                got == NotesOfTrack(project.notes, t - 1)
                closed == Cardinality({x \in 1..Len(tr) : Closes(tr, x)})
                pending == PendingAtEnd(tr)
            IN /\ Len(got) = closed + Cardinality(pending)
               /\ \A j \in pending :
                     Cardinality({x \in (closed + 1)..Len(got) : got[x] = ClosedAtEnd(tr, j, t - 1)})
                     = Cardinality({x \in pending :
                                      ClosedAtEnd(tr, x, t - 1) = ClosedAtEnd(tr, j, t - 1)})

\* C17 witness: a decoded track that ends with two note_on messages pending, one
\* opened before the final tick and one at the final tick.
C17_Witness ==
    /\ op = "load_midi_as_notes"
    /\ \E t \in 1..Len(mid.tracks) :
          LET tr == mid.tracks[t]
          IN \E a, b \in PendingAtEnd(tr) :
                /\ AbsTick(tr, a) < AbsTick(tr, Len(tr))
                /\ AbsTick(tr, b) = AbsTick(tr, Len(tr))
                /\ \E x \in 1..Len(project.notes) :
                      project.notes[x] = ClosedAtEnd(tr, b, t - 1)

\* The notes of the t-th track decoded as a file of its own, given the index
\* that the track has in the file.
RECURSIVE AloneNotes(_, _)
AloneNotes(tracks, t) ==
    IF t > Len(tracks) THEN <<>>
    ELSE LET alone == load_midi_as_notes(MidiFile(<<tracks[t]>>)).notes
         IN [i \in 1..Len(alone) |-> [alone[i] EXCEPT !.track_index = t - 1]]
            \o AloneNotes(tracks, t + 1)

\* C24: the notes of a file of several tracks are the notes of each track
\* decoded on its own, one track after the other: no pending note_on passes from
\* a track to the next and each track counts its ticks from 0.
C24_TracksIndependent ==
    op = "load_midi_as_notes" => project.notes = AloneNotes(mid.tracks, 1)

\* C24 witness: the first track leaves a note_on pending and the second has,
\* one tick on, the note_off of the same key: the one note is of the first track.
C24_Witness ==
    /\ op = "load_midi_as_notes"
    /\ mid.tracks = <<<<NoteOn(1, 0, 60, 100)>>, <<NoteOff(1, 0, 60, 0)>>>>
    /\ project.notes = <<NoteEvent(1, 2, 60, 100, 0, 0)>>

\* The closing messages of a track that find no note_on of their key pending.
OrphanOffs(tr) == {i \in 1..Len(tr) : IsOff(tr[i]) /\ PendingAt(tr, i) = 0}

\* C25: a note_off, or note_on with velocity 0, whose key has no note_on pending
\* in its track emits no note and changes no pending entry: the file decodes to
\* the notes it would have with a message of the same delta time that is no note
\* message in its place.
C25_OrphanOffAbsorbed ==
    op = "load_midi_as_notes" =>
        \A t \in 1..Len(mid.tracks) : \A i \in OrphanOffs(mid.tracks[t]) :
            LET msg == mid.tracks[t][i]
                without == [mid EXCEPT !.tracks[t][i] = ProgramChange(msg.time, msg.channel, 0)]
            IN load_midi_as_notes(without).notes = project.notes

\* C25 witness: a track that opens with a note_off nothing is pending for, one
\* tick in, followed by a note_on and the note_off of the same key.
C25_Witness ==
    /\ op = "load_midi_as_notes"
    /\ mid.tracks = <<<<NoteOff(1, 0, 60, 0), NoteOn(0, 0, 60, 100), NoteOff(1, 0, 60, 0)>>>>
    /\ project.notes = <<NoteEvent(1, 2, 60, 100, 0, 0)>>

\* The note_on messages of a track that a closing message takes at their own
\* tick: they are consumed and yield no note.
ConsumedOns(tr) ==
    {OldestPending(tr, i) : i \in {x \in 1..Len(tr) :
                                      IsOff(tr[x]) /\ PendingAt(tr, x) > 0 /\ ~Closes(tr, x)}}

\* What a decoded note has of its note_on.
OnPart(start_tick, msg) == <<start_tick, msg.channel, msg.note, msg.velocity>>

\* C29: in each track every note_on with velocity > 0 yields exactly one note
\* with its channel, pitch and velocity, except the ones paired with a note_off
\* at their own tick, which yield none, the end of the track included: the notes
\* of a track number its note_on messages less those pairings.
C29_NoteConservation ==
    op = "load_midi_as_notes" =>
        \A t \in 1..Len(mid.tracks) :
            LET tr == mid.tracks[t]
                got == NotesOfTrack(project.notes, t - 1)
                ons == {j \in 1..Len(tr) : IsOn(tr[j])}
                yielding == ons \ ConsumedOns(tr)
                same_tick == {x \in 1..Len(tr) :
                                 IsOff(tr[x]) /\ PendingAt(tr, x) > 0 /\ ~Closes(tr, x)}
            IN /\ Len(got) = Cardinality(ons) - Cardinality(same_tick)
               /\ \A j \in yielding :
                     Cardinality({x \in 1..Len(got) :
                         <<got[x].start_tick, got[x].channel, got[x].pitch, got[x].velocity>>
                             = OnPart(AbsTick(tr, j), tr[j])})
                     = Cardinality({k \in yielding :
                         OnPart(AbsTick(tr, k), tr[k]) = OnPart(AbsTick(tr, j), tr[j])})

\* C29 witness: a track of three messages: a note_on closed at its own tick and
\* a note_on left pending; the one note is that of the second note_on.
C29_Witness ==
    /\ op = "load_midi_as_notes"
    /\ mid.tracks = <<<<NoteOn(0, 0, 60, 100), NoteOff(0, 0, 60, 0), NoteOn(1, 9, 38, 100)>>>>
    /\ project.notes = <<NoteEvent(1, 2, 38, 100, 9, 0)>>

----------------------------------------------------------------------------
(* Decoder inputs: files with set_tempo meta-events. *)

\* 120 BPM, 600 BPM (over the clamp), 20 BPM (under it), 149.9996 BPM (rounded).
TempoValues == {500000, 100000, 3000000, 400001}

MetaMsgs ==
    {SetTempo(d, v) : d \in {0, MaxDelta}, v \in TempoValues}
    \cup {NoteOn(0, c, 60, 100) : c \in {0, 1}}

InitMeta ==
    /\ op = "file"
    /\ args = NoArgs
    /\ \E n1 \in 0..MaxLen : \E n2 \in 0..(MaxLen - n1) :
          \E t1 \in [1..n1 -> MetaMsgs] : \E t2 \in [1..n2 -> MetaMsgs] :
             mid \in {MidiFile(<<>>), MidiFile(<<t1>>), MidiFile(<<t1, t2>>)}
    /\ project = NoProject
    /\ Idle

NextMeta == Load

SpecMeta == InitMeta /\ [][NextMeta]_vars

\* The tracks that have a set_tempo.
TempoTracks(tracks) ==
    {t \in 1..Len(tracks) : \E i \in 1..Len(tracks[t]) : tracks[t][i].type = "set_tempo"}

\* C18: the tempo_bpm of a decoded project is the rounded BPM, clamped to 30..300,
\* of the first set_tempo in track-major order (the first one of the first track
\* that has one), whatever the ticks of the set_tempo events of later tracks; it
\* is 120 when the file has no set_tempo.
C18_FirstTempoTrackMajor ==
    op = "load_midi_as_notes" =>
        IF TempoTracks(mid.tracks) = {} THEN project.tempo_bpm = 120
        ELSE LET t == CHOOSE x \in TempoTracks(mid.tracks) :
                         \A y \in TempoTracks(mid.tracks) : x <= y
                 tr == mid.tracks[t]
                 i == CHOOSE x \in 1..Len(tr) :
                         /\ tr[x].type = "set_tempo"
                         /\ \A y \in 1..(x - 1) : tr[y].type # "set_tempo"
                 bpm == RoundedTempo2Bpm(tr[i].tempo)
             IN project.tempo_bpm = (IF bpm < 30 THEN 30 ELSE IF bpm > 300 THEN 300 ELSE bpm)

\* C18 witness: the first track has its set_tempo after tick 0, the second has
\* one of another tempo at tick 0, and the project has the tempo of the first.
C18_Witness ==
    /\ op = "load_midi_as_notes"
    /\ Len(mid.tracks) = 2
    /\ Len(mid.tracks[1]) = 1 /\ Len(mid.tracks[2]) = 1
    /\ mid.tracks[1][1] = SetTempo(MaxDelta, 400001)
    /\ mid.tracks[2][1] = SetTempo(0, 500000)
    /\ project.tempo_bpm = 150

----------------------------------------------------------------------------
(* Decoder inputs: files with track_name meta-events. *)

TrackNames == {" ", " Lead ", "Bass"}

NameMsgs ==
    {TrackName(0, n) : n \in TrackNames} \cup {NoteOn(0, c, 60, 100) : c \in {0, 1}}

InitNames ==
    /\ op = "file"
    /\ args = NoArgs
    /\ \E n1 \in 0..MaxNameLen : \E n2 \in 0..(MaxNameLen - n1) :
          \E t1 \in [1..n1 -> NameMsgs] : \E t2 \in [1..n2 -> NameMsgs] :
             mid \in {MidiFile(<<>>), MidiFile(<<t1>>), MidiFile(<<t1, t2>>)}
    /\ project = NoProject
    /\ Idle

NextNames == Load

SpecNames == InitNames /\ [][NextNames]_vars

\* The channels that the messages of a track reference.
ChannelsIn(tr) == {tr[i].channel : i \in {j \in 1..Len(tr) : ~IsMeta(tr[j])}}

\* The stripped name of the first track_name of a track ("" when it has none).
FirstTrackName(tr) ==
    LET hits == {i \in 1..Len(tr) : tr[i].type = "track_name"}
    IN IF hits = {} THEN ""
       ELSE Strip(tr[CHOOSE i \in hits : \A j \in hits : i <= j].name)

\* The stripped name of the first track_name of a track that is not blank.
FirstNonBlankTrackName(tr) ==
    LET hits == {i \in 1..Len(tr) : tr[i].type = "track_name" /\ Strip(tr[i].name) # ""}
    IN IF hits = {} THEN ""
       ELSE Strip(tr[CHOOSE i \in hits : \A j \in hits : i <= j].name)

\* The label of channel c is the name of the earliest track that has a name and
\* references c; without such a track c has no label.
LabelsEarliest(names) ==
    \A c \in 0..MaxMidiChannel :
        LET T == {t \in 1..Len(mid.tracks) : names[t] # "" /\ c \in ChannelsIn(mid.tracks[t])}
        IN IF T = {} THEN c \notin DOMAIN project.channel_track_name
           ELSE /\ c \in DOMAIN project.channel_track_name
                /\ project.channel_track_name[c] = names[CHOOSE t \in T : \A u \in T : t <= u]

\* C19 as stated: the name of a track is that of its first track_name meta-event,
\* later track_name events of the track being ignored; a channel's label is the
\* name of the earliest named track that references it, never overwritten, and a
\* channel referenced only by unnamed tracks has no label.
C19_LabelFirstTrackName ==
    op = "load_midi_as_notes" =>
        LabelsEarliest([t \in 1..Len(mid.tracks) |-> FirstTrackName(mid.tracks[t])])

\* C19 amended: the name of a track is that of its first track_name meta-event
\* whose name is not blank (a blank one is passed over and a later one taken).
C19_LabelFirstNonBlankName ==
    op = "load_midi_as_notes" =>
        LabelsEarliest([t \in 1..Len(mid.tracks) |-> FirstNonBlankTrackName(mid.tracks[t])])

\* C19 witness: two named tracks reference channel 0, the first of them after a
\* blank track_name, and the label of channel 0 is the name of the first track.
C19_Witness ==
    /\ op = "load_midi_as_notes"
    /\ Len(mid.tracks) = 2
    /\ Len(mid.tracks[1]) = 3
    /\ mid.tracks[1][1] = TrackName(0, " ")
    /\ mid.tracks[1][2] = TrackName(0, " Lead ")
    /\ mid.tracks[1][3] = NoteOn(0, 0, 60, 100)
    /\ Len(mid.tracks[2]) = 2
    /\ mid.tracks[2][1] = TrackName(0, "Bass")
    /\ mid.tracks[2][2] = NoteOn(0, 0, 60, 100)
    /\ project.channel_track_name[0] = "Lead"

----------------------------------------------------------------------------
(* Encoder inputs: projects as the decoder and the channel handlers leave    *)
(* them (end_tick > start_tick >= 0, velocity >= 1, channel in 0..127).      *)

EncChannels == {0, 10, 16}

EncNotes ==
    {NoteEvent(s, e, 60, 100, c, 0) : s \in 0..MaxTick, e \in 1..MaxTick, c \in EncChannels}

EncInstrumentMaps ==
    {EmptyMap,
     [c \in {0, 10} |-> IF c = 0 THEN 5 ELSE 7],
     [c \in {0} |-> 200]}

AllFlags == {Flags(a, b, c, d) : a \in BOOLEAN, b \in BOOLEAN, c \in BOOLEAN, d \in BOOLEAN}

InitEncode ==
    /\ op = "project"
    /\ args = NoArgs
    /\ mid = NoFile
    /\ \E n \in 0..MaxNotes : \E notes \in [1..n -> EncNotes] : \E ci \in EncInstrumentMaps :
          /\ \A i \in 1..n : notes[i].end_tick > notes[i].start_tick
          /\ project = MidiProject(DefaultTicksPerBeat, notes, ci, DefaultTempoBpm, EmptyMap, {})
    /\ Idle

\* A call of save_project_to_midi(project, out_path, **flags)
Save ==
    /\ op = "project"
    /\ \E f \in AllFlags :
          LET r == save_project_to_midi(project, f)
          IN /\ args' = [project |-> project, flags |-> f]
             /\ raised' = r.raised
             /\ warnings' = r.warnings
             /\ mid' = IF r.raised THEN mid
                       ELSE [ticks_per_beat |-> project.ticks_per_beat, tracks |-> r.tracks]
    /\ op' = "save_project_to_midi"
    /\ UNCHANGED <<project, rs_drums_by_note, changed, unmapped>>

\* A call of load_midi_as_notes on the file that Save wrote
Reload ==
    /\ op = "save_project_to_midi"
    /\ ~raised
    /\ op' = "reload"
    /\ project' = load_midi_as_notes(mid)
    /\ UNCHANGED <<args, mid, warnings, raised, rs_drums_by_note, changed, unmapped>>

NextEncode == Save \/ Reload

SpecEncode == InitEncode /\ [][NextEncode]_vars

----------------------------------------------------------------------------
(* The encoder's claims. *)

Written == op = "save_project_to_midi" /\ ~raised

\* C3: in the track that save_project_to_midi writes no event lies before an
\* earlier one (no delta time is negative), and of the events at one absolute
\* tick every note_off comes before every note_on.
C3_OffBeforeOn ==
    Written =>
        LET tr == mid.tracks[1]
        IN /\ \A i \in 1..Len(tr) : tr[i].time >= 0
           /\ \A i, j \in 1..Len(tr) :
                 (AbsTick(tr, i) = AbsTick(tr, j) /\ tr[i].type = "note_off"
                    /\ tr[j].type = "note_on") => i < j

\* C3 witness: a written track with a note_off and a note_on at one tick, from a
\* project that lists the note that starts there before the note that ends there.
C3_Witness ==
    /\ Written
    /\ Len(project.notes) >= 2
    /\ project.notes[1].start_tick = project.notes[2].end_tick
    /\ \E i, j \in 1..Len(mid.tracks[1]) :
          /\ mid.tracks[1][i].type = "note_off"
          /\ mid.tracks[1][j].type = "note_on"
          /\ AbsTick(mid.tracks[1], i) = AbsTick(mid.tracks[1], j)

\* The project is two notes of one channel and pitch, one ending where the other starts.
TouchingPair(p) ==
    /\ Len(p.notes) = 2
    /\ p.notes[1].channel = p.notes[2].channel
    /\ p.notes[1].pitch = p.notes[2].pitch
    /\ \/ p.notes[1].end_tick = p.notes[2].start_tick
       \/ p.notes[2].end_tick = p.notes[1].start_tick

TickPairs(notes) == {<<notes[i].start_tick, notes[i].end_tick>> : i \in 1..Len(notes)}

\* The channel filter of the call recorded in args drops the notes of channel c.
Dropped(c) ==
    c > 9 /\ args.flags.normalize_to_channels_0_9 /\ args.flags.drop_channels_over_9

C9_SaveNeverRaises == op = "save_project_to_midi" => ~raised

\* The notes of a list that the channel filter of the recorded call retains.
Retained(notes) == SelectSeq(notes, LAMBDA n : ~Dropped(n.channel))

\* How many note messages of a kind and key the track has at absolute tick s.
MsgsAt(tr, type, c, pitch, s) ==
    Cardinality({i \in 1..Len(tr) :
        /\ tr[i].type = type /\ tr[i].channel = c /\ tr[i].note = pitch
        /\ AbsTick(tr, i) = s})

\* C26: the track written by save_project_to_midi has exactly one note_on and
\* one note_off for every retained note, the running sum of the delta times at
\* them being the note's start_tick and end_tick; no delta is negative; a
\* set_tempo, when written, is the first event and end_of_track is the last.
C26_TrackLayout ==
    Written =>
        LET tr == mid.tracks[1]
            kept == Retained(args.project.notes)
            keys == {<<kept[i].channel, kept[i].pitch>> : i \in 1..Len(kept)}
        IN /\ Cardinality({i \in 1..Len(tr) : tr[i].type = "note_on"}) = Len(kept)
           /\ Cardinality({i \in 1..Len(tr) : tr[i].type = "note_off"}) = Len(kept)
           /\ \A k \in keys : \A s \in 0..MaxTick :
                 /\ MsgsAt(tr, "note_on", k[1], k[2], s)
                      = Cardinality({i \in 1..Len(kept) :
                           <<kept[i].channel, kept[i].pitch>> = k /\ kept[i].start_tick = s})
                 /\ MsgsAt(tr, "note_off", k[1], k[2], s)
                      = Cardinality({i \in 1..Len(kept) :
                           <<kept[i].channel, kept[i].pitch>> = k /\ kept[i].end_tick = s})
           /\ \A i \in 1..Len(tr) : tr[i].time >= 0
           /\ \A i \in 1..Len(tr) : tr[i].type = "set_tempo" => (i = 1 /\ args.flags.write_tempo)
           /\ args.flags.write_tempo => tr[1].type = "set_tempo"
           /\ \A i \in 1..Len(tr) : tr[i].type = "end_of_track" <=> i = Len(tr)

\* C26 witness: a track written with its set_tempo for a project that lists a
\* note of ticks 1..2 before a note of ticks 0..1.
C26_Witness ==
    /\ Written
    /\ args.flags.write_tempo
    /\ Len(args.project.notes) = 2
    /\ args.project.notes[1].start_tick = 1
    /\ args.project.notes[2].start_tick = 0
    /\ Len(mid.tracks[1]) = 6

\* How often a list has a note of the given ticks, pitch, velocity and channel.
NoteCount(notes, n) ==
    Cardinality({i \in 1..Len(notes) :
        [notes[i] EXCEPT !.track_index = 0] = [n EXCEPT !.track_index = 0]})

\* The two lists have the same notes as often, whatever the order and track.
SameNotes(xs, ys) ==
    /\ Len(xs) = Len(ys)
    /\ \A i \in 1..Len(xs) : NoteCount(xs, xs[i]) = NoteCount(ys, xs[i])

\* No two notes of one channel and pitch overlap (touching is no overlap).
NoOverlap(notes) ==
    \A i, j \in 1..Len(notes) :
        (i # j /\ notes[i].channel = notes[j].channel /\ notes[i].pitch = notes[j].pitch)
            => (notes[i].end_tick <= notes[j].start_tick \/ notes[j].end_tick <= notes[i].start_tick)

\* C27: a project without overlapping notes of one channel and pitch, with
\* velocity >= 1, end_tick > start_tick >= 0 and channel <= 9 everywhere, comes
\* back from save_project_to_midi and load_midi_as_notes with the same multiset
\* of (start_tick, end_tick, pitch, velocity, channel).
C27_RoundTrip ==
    (/\ op = "reload"
     /\ NoOverlap(args.project.notes)
     /\ \A i \in 1..Len(args.project.notes) :
           LET n == args.project.notes[i]
           IN n.velocity >= 1 /\ n.end_tick > n.start_tick /\ n.start_tick >= 0 /\ n.channel <= 9)
        => SameNotes(project.notes, args.project.notes)

\* C27 witness: a project of two touching notes of channel 0, the later one
\* listed first, saved with the default flags and decoded again.
C27_Witness ==
    /\ op = "reload"
    /\ args.flags = Flags(TRUE, TRUE, FALSE, TRUE)
    /\ Len(args.project.notes) = 2
    /\ args.project.notes[1].channel = 0 /\ args.project.notes[2].channel = 0
    /\ args.project.notes[1].start_tick = args.project.notes[2].end_tick
    /\ Len(project.notes) = 2

\* The channels over 9 among the notes handed to the call.
OverSet(notes) == {notes[i].channel : i \in {j \in 1..Len(notes) : notes[j].channel > 9}}

\* How many notes of channel c start at tick s, and how many note_on messages of
\* channel c the track has at absolute tick s.
NotesStarting(notes, c, s) ==
    Cardinality({i \in 1..Len(notes) : notes[i].channel = c /\ notes[i].start_tick = s})

NoteOnsAt(tr, c, s) ==
    Cardinality({i \in 1..Len(tr) : IsOn(tr[i]) /\ tr[i].channel = c /\ AbsTick(tr, i) = s})

\* Every note of the channels in C is in the track, and nothing else of C.
RetainedOn(C) ==
    \A c \in C : \A s \in 0..MaxTick :
        NoteOnsAt(mid.tracks[1], c, s) = NotesStarting(args.project.notes, c, s)

\* C15: the channel filter of save_project_to_midi. The call returns no warning
\* when normalize_to_channels_0_9 is off or no note is over channel 9
\* (drop_channels_over_9 alone drops nothing); one warning, listing the sorted
\* distinct channels over 9, with all notes retained, when normalization is on
\* and dropping off; two warnings, with no note event over channel 9 and all
\* notes up to channel 9 retained, when both are on. Stated of the calls without
\* force_programs_at_start, which build no message but those of the notes.
C15_ChannelFilter ==
    (op = "save_project_to_midi" /\ ~args.flags.force_programs_at_start) =>
        /\ ~raised
        /\ LET f == args.flags
               over == OverSet(args.project.notes)
               tr == mid.tracks[1]
           IN IF ~f.normalize_to_channels_0_9 \/ over = {}
              THEN warnings = <<>> /\ RetainedOn(EncChannels)
              ELSE IF ~f.drop_channels_over_9
              THEN /\ Len(warnings) = 1
                   /\ {warnings[1].channels[i] : i \in 1..Len(warnings[1].channels)} = over
                   /\ \A i \in 1..(Len(warnings[1].channels) - 1) :
                         warnings[1].channels[i] < warnings[1].channels[i + 1]
                   /\ RetainedOn(EncChannels)
              ELSE /\ Len(warnings) = 2
                   /\ warnings[1].channels # <<>>
                   /\ warnings[2] # warnings[1]
                   /\ \A i \in 1..Len(tr) : (IsOn(tr[i]) \/ IsOff(tr[i])) => tr[i].channel <= 9
                   /\ RetainedOn({c \in EncChannels : c <= 9})

\* The program_change messages of a track, in track order.
RECURSIVE ProgramChangesOf(_)
ProgramChangesOf(tr) ==
    IF tr = <<>> THEN <<>>
    ELSE (IF Head(tr).type = "program_change" THEN <<Head(tr)>> ELSE <<>>)
         \o ProgramChangesOf(Tail(tr))

\* C16: with force_programs_at_start the call writes a track with exactly one
\* program_change, at tick 0, for every key of channel_instrument_id (keys over 9
\* left out when normalize_to_channels_0_9 is on), in ascending channel order,
\* with the raw instrument id as program, whether or not the channel has a note;
\* with the flag off the track has no program_change. Stated of the projects
\* whose notes are all on MIDI channels (0..15).
C16_ProgramsAtStart ==
    (/\ op = "save_project_to_midi"
     /\ \A i \in 1..Len(args.project.notes) :
           args.project.notes[i].channel <= MaxMidiChannel) =>
        /\ ~raised
        /\ LET f == args.flags
               ci == args.project.channel_instrument_id
               tr == mid.tracks[1]
               pcs == ProgramChangesOf(tr)
               keys == {c \in DOMAIN ci : ~(f.normalize_to_channels_0_9 /\ c > 9)}
           IN IF ~f.force_programs_at_start THEN pcs = <<>>
              ELSE /\ Len(pcs) = Cardinality(keys)
                   /\ {pcs[i].channel : i \in 1..Len(pcs)} = keys
                   /\ \A i \in 1..Len(pcs) : pcs[i].program = ci[pcs[i].channel]
                   /\ \A i \in 1..(Len(pcs) - 1) : pcs[i].channel < pcs[i + 1].channel
                   /\ \A i \in 1..Len(tr) :
                         tr[i].type = "program_change" => AbsTick(tr, i) = 0

----------------------------------------------------------------------------
(* Round trip: a single-track file decoded, saved and decoded again. *)

\* The flags of the calls drawn: the defaults (the export and preview calls of
\* the main window) and those of its "save as" call.
RoundTripFlags == {Flags(TRUE, TRUE, FALSE, TRUE), Flags(FALSE, TRUE, FALSE, TRUE)}

\* Note messages of one channel and pitch, with two velocities.
RoundTripMsgs ==
    {NoteOn(d, 0, 60, v) : d \in 0..MaxDelta, v \in {50, 100}}
    \cup {NoteOff(d, 0, 60, 0) : d \in 0..MaxDelta}

InitRoundTrip ==
    /\ op = "file"
    /\ args = NoArgs
    /\ \E n \in 0..MaxRoundTripLen : \E t \in [1..n -> RoundTripMsgs] : mid = MidiFile(<<t>>)
    /\ project = NoProject
    /\ Idle

\* A call of save_project_to_midi on the project just decoded
SaveDecoded ==
    /\ op = "load_midi_as_notes"
    /\ \E f \in RoundTripFlags :
          LET r == save_project_to_midi(project, f)
          IN /\ args' = [project |-> project, flags |-> f]
             /\ raised' = r.raised
             /\ warnings' = r.warnings
             /\ mid' = IF r.raised THEN mid
                       ELSE [ticks_per_beat |-> project.ticks_per_beat, tracks |-> r.tracks]
    /\ op' = "save_project_to_midi"
    /\ UNCHANGED <<project, rs_drums_by_note, changed, unmapped>>

NextRoundTrip == Load \/ SaveDecoded \/ Reload

SpecRoundTrip == InitRoundTrip /\ [][NextRoundTrip]_vars

\* C28: the project D decoded from a single-track file with notes on channels
\* <= 9 is a fixed point of the round trip: the file save_project_to_midi writes
\* for D decodes to the same multiset of (start_tick, end_tick, pitch, velocity,
\* channel), also when notes of one pitch overlap in D.
C28_ReencodeStable ==
    op = "reload" => SameNotes(project.notes, args.project.notes)

\* C28 witness: D has two overlapping notes of one channel and pitch with
\* different ticks and velocities, and the second decoding has two notes.
C28_Witness ==
    /\ op = "reload"
    /\ Len(args.project.notes) = 2
    /\ ~NoOverlap(args.project.notes)
    /\ args.project.notes[1].start_tick < args.project.notes[2].start_tick
    /\ args.project.notes[1].end_tick < args.project.notes[2].end_tick
    /\ args.project.notes[1].velocity # args.project.notes[2].velocity
    /\ Len(project.notes) = 2

----------------------------------------------------------------------------
(* Tempo: projects of any tempo_bpm, saved and decoded again. *)

InitTempo ==
    /\ op = "project"
    /\ args = NoArgs
    /\ mid = NoFile
    /\ \E bpm \in (0 - MaxDrawnBpm)..MaxDrawnBpm :
          project = MidiProject(DefaultTicksPerBeat, <<>>, EmptyMap, bpm, EmptyMap, {})
    /\ Idle

NextTempo == Save \/ Reload

SpecTempo == InitTempo /\ [][NextTempo]_vars

\* C8: with write_tempo set, the BPM decoded from the file written for a project
\* of any integer tempo_bpm is tempo_bpm brought into 30..300, and writing and
\* decoding the decoded project again gives the same BPM.
C8_TempoClamp ==
    (op = "reload" /\ args.flags.write_tempo) =>
        LET bpm == args.project.tempo_bpm
            again == save_project_to_midi(project, args.flags)
        IN /\ project.tempo_bpm = (IF bpm < 30 THEN 30 ELSE IF bpm > 300 THEN 300 ELSE bpm)
           /\ ~again.raised
           /\ extract_tempo_bpm(MidiFile(again.tracks)) = project.tempo_bpm

\* C8 witness: a project above 300 BPM and one below 30 BPM, written with a
\* set_tempo and decoded at the limit.
C8_Witness ==
    /\ op = "reload"
    /\ args.flags.write_tempo
    /\ \/ args.project.tempo_bpm > 300 /\ project.tempo_bpm = 300
       \/ args.project.tempo_bpm < 0 /\ project.tempo_bpm = 30
    /\ mid.tracks[1][1].type = "set_tempo"

----------------------------------------------------------------------------
(* The injector: files as the encoder or another program wrote them. *)

InjDrawnTempo == 500000

InjMsgs ==
    {SetTempo(d, InjDrawnTempo) : d \in 0..MaxDelta}
    \cup {ProgramChange(d, c, 5) : d \in 0..MaxDelta, c \in {0, 1, DrumChannel}}
    \cup {NoteOn(d, 0, 60, 100) : d \in 0..MaxDelta}

AllInjectArgs ==
    {InjectArgs(t, b, m, d) :
        t \in {20, 140}, b \in {1, 4}, m \in 0..MaxMelodic, d \in {-1, 1, DrumChannel, 16}}

InitInject ==
    /\ op = "file"
    /\ args = NoArgs
    /\ \E n \in 0..MaxInjLen : \E body \in [1..n -> InjMsgs] :
          mid \in {MidiFile(<<>>), MidiFile(<<body \o <<EndOfTrack(0)>>>>),
                   MidiFile(<<body \o <<EndOfTrack(0)>>, <<EndOfTrack(0)>>>>)}
    /\ project = NoProject
    /\ Idle

\* A call of inject_init_events(in_mid, out_mid, **args) on the file at hand
Inject ==
    /\ op = "file"
    /\ op' = "inject_init_events"
    /\ args' \in AllInjectArgs
    /\ LET r == inject_init_events(mid, args')
       IN /\ raised' = r.raised
          /\ mid' = IF r.raised THEN mid ELSE MidiFile(r.tracks)
    /\ UNCHANGED <<project, warnings, rs_drums_by_note, changed, unmapped>>

\* A second call, with the same arguments, on the file the first call wrote
InjectAgain ==
    /\ op = "inject_init_events"
    /\ ~raised
    /\ op' = "inject_init_events_again"
    /\ LET r == inject_init_events(mid, args)
       IN /\ raised' = r.raised
          /\ mid' = IF r.raised THEN mid ELSE MidiFile(r.tracks)
    /\ UNCHANGED <<args, project, warnings, rs_drums_by_note, changed, unmapped>>

NextInject == Inject \/ InjectAgain

SpecInject == InitInject /\ [][NextInject]_vars

\* C5: inject_init_events applied to its own output, with the same arguments,
\* adds no event: every track of the file, track 0 with its tick-0 set_tempo and
\* program_change events included, is the same after the second application.
C5_InjectIdempotent ==
    [][(op = "inject_init_events" /\ op' = "inject_init_events_again")
          => (~raised' /\ mid' = mid)]_vars

\* C5 witness: a second application on a file to which the first one added a
\* set_tempo and program changes.
C5_Witness ==
    /\ op = "inject_init_events_again"
    /\ args.max_melodic_channels >= 2
    /\ args.drum_midi_channel = DrumChannel
    /\ Len(mid.tracks[1]) >= 5
    /\ mid.tracks[1][1].type = "set_tempo"
    /\ mid.tracks[1][2].type = "program_change"

\* One call of inject_init_events: the step from the file read to the file written.
InjectStep == op = "file" /\ op' = "inject_init_events" /\ ~raised'

\* Track 0 as the call sees it: a file without tracks is given an empty one,
\* which mido writes as a lone end_of_track.
InTrack0(m) == IF m.tracks = <<>> THEN <<>> ELSE m.tracks[1]

IsProgramChange(msg, c) == msg.type = "program_change" /\ msg.channel = c

\* The indices of the program_change events for channel c at absolute tick 0.
ProgramChangesAtTick0(tr, c) ==
    {i \in 1..Len(tr) : IsProgramChange(tr[i], c) /\ AbsTick(tr, i) = 0}

\* The indices of the set_tempo events at absolute tick 0.
SetTemposAtTick0(tr) ==
    {i \in 1..Len(tr) : tr[i].type = "set_tempo" /\ AbsTick(tr, i) = 0}

\* C11: after inject_init_events every melodic channel c in
\* 0..max_melodic_channels-1 has a program_change at absolute tick 0 in track 0:
\* the one of the input if the input had one at absolute tick 0, otherwise a new
\* one with program = program_base + c; a program_change at a later absolute
\* tick of the input does not count as existing.
C11_MelodicProgramAtTick0 ==
    [][InjectStep =>
        \A c \in 0..(args'.max_melodic_channels - 1) :
            LET in0 == InTrack0(mid)
                out0 == mid'.tracks[1]
            IN IF ProgramChangesAtTick0(in0, c) # {}
               THEN \E j \in ProgramChangesAtTick0(out0, c) :
                       \E i \in ProgramChangesAtTick0(in0, c) : out0[j] = in0[i]
               ELSE \E j \in ProgramChangesAtTick0(out0, c) :
                       out0[j].program = args'.program_base + c]_vars

\* C12: when track 0 of the input has no set_tempo at absolute tick 0,
\* inject_init_events prepends a set_tempo whose BPM is tempo_bpm clamped to
\* 30..300; when it has one, no set_tempo is added.
C12_TempoAtTick0 ==
    [][InjectStep =>
        LET in0 == InTrack0(mid)
            out0 == mid'.tracks[1]
        IN IF SetTemposAtTick0(in0) = {}
           THEN /\ out0[1].type = "set_tempo"
                /\ out0[1].time = 0
                /\ RoundedTempo2Bpm(out0[1].tempo) = Clamp(args'.tempo_bpm)
           ELSE Cardinality({i \in 1..Len(out0) : out0[i].type = "set_tempo"})
                = Cardinality({i \in 1..Len(in0) : in0[i].type = "set_tempo"})]_vars

\* The first k events of track 0 are the prepended block: a set_tempo if any,
\* then program changes base + channel in ascending melodic channel order, then
\* the drum program change (program 0) if any, all with delta time 0.
PrependedBlock(out0, k, a) ==
    \E t \in {0, 1} : \E d \in {0, 1} :
        /\ t + d <= k
        /\ \A i \in 1..k : out0[i].time = 0
        /\ t = 1 => out0[1].type = "set_tempo"
        /\ d = 1 => out0[k] = ProgramChange(0, a.drum_midi_channel, 0)
        /\ \A i \in (t + 1)..(k - d) :
              /\ out0[i].type = "program_change"
              /\ out0[i].channel \in 0..(a.max_melodic_channels - 1)
              /\ out0[i].program = a.program_base + out0[i].channel
              /\ i < k - d => out0[i].channel < out0[i + 1].channel

\* C13: the events inject_init_events prepends are one block at the very start
\* of track 0, in the order tempo, melodic program changes by ascending channel,
\* drum program change; after the block come the events of the input, each in
\* its place and at its absolute tick, and the other tracks are as they were.
C13_PrependedBlockFirst ==
    [][InjectStep =>
        LET in0 == IF mid.tracks = <<>> THEN <<EndOfTrack(0)>> ELSE mid.tracks[1]
            out0 == mid'.tracks[1]
            k == Len(out0) - Len(in0)
        IN /\ k >= 0
           /\ PrependedBlock(out0, k, args')
           /\ \A i \in 1..Len(in0) :
                 /\ [out0[k + i] EXCEPT !.time = 0] = [in0[i] EXCEPT !.time = 0]
                 /\ AbsTick(out0, k + i) = AbsTick(in0, i)
           /\ Len(mid'.tracks) = Max(1, Len(mid.tracks))
           /\ \A t \in 2..Len(mid.tracks) : mid'.tracks[t] = mid.tracks[t]]_vars

\* C13 witness: the file written has the full block (tempo, channels 0 and 1,
\* the drum channel) in front of the note and the end of track of the input.
C13_Witness ==
    /\ op = "inject_init_events"
    /\ args.max_melodic_channels = 2
    /\ args.drum_midi_channel = DrumChannel
    /\ Len(mid.tracks[1]) >= 6
    /\ mid.tracks[1][1].type = "set_tempo"
    /\ mid.tracks[1][2] = ProgramChange(0, 0, args.program_base)
    /\ mid.tracks[1][3] = ProgramChange(0, 1, args.program_base + 1)
    /\ mid.tracks[1][4] = ProgramChange(0, DrumChannel, 0)
    /\ mid.tracks[1][5].type = "note_on"
    /\ mid.tracks[1][5].time = 1

\* C14: for every max_melodic_channels and drum_midi_channel, one call never
\* leaves two program_change events at absolute tick 0 for the same channel
\* unless the input already had them.
C14_NoDuplicateProgramChange ==
    [][InjectStep =>
        \A c \in 0..MaxMidiChannel :
            Cardinality(ProgramChangesAtTick0(mid'.tracks[1], c))
                <= Max(1, Cardinality(ProgramChangesAtTick0(InTrack0(mid), c)))]_vars

----------------------------------------------------------------------------
(* gui/ui_main.py: the main window's channel handlers on the open project. *)

\* cfg.instruments: the ids of the catalog, the first one being the default.
InstrumentIds == {0, 7}
DefaultInstrumentId == 0

\* The channels of the drawn files and of the handlers' arguments.
Channels == {0, 1, DrumChannel}

\* "Default instrument selections for channels that appear (except drums on 9)",
\* in open_midi and again for every row in refresh_channel_table.
RECURSIVE SetDefaults(_, _)
SetDefaults(ci, chans) ==
    IF chans = <<>> THEN ci
    ELSE SetDefaults(IF Head(chans) = DrumChannel THEN ci
                     ELSE MapSetDefault(ci, Head(chans), DefaultInstrumentId),
                     Tail(chans))

refresh_channel_table(p) ==
    [p EXCEPT !.channel_instrument_id = SetDefaults(@, used_channels(p))]

\* The decoded projects drawn: the i-th note spans ticks i-1..i.
OpenNotes(n) ==
    {[i \in 1..n |-> NoteEvent(i - 1, i, 60, 100, chans[i], 0)] : chans \in [1..n -> Channels]}

OpenNames ==
    {EmptyMap,
     [c \in {0} |-> "Lead"],
     [c \in {0, 1} |-> IF c = 0 THEN "Lead" ELSE "Bass"],
     [c \in {DrumChannel} |-> "Drums"]}

\* The state after construction: self.project is None.
Init ==
    /\ op = "init"
    /\ args = NoArgs
    /\ mid = NoFile
    /\ project = NoProject
    /\ Idle

Frame == UNCHANGED <<mid, warnings, raised, rs_drums_by_note, changed, unmapped>>

\* MainWindow.open_midi on the first file opened
OpenMidi ==
    /\ op = "init"
    /\ op' = "open_midi"
    /\ args' = NoArgs
    /\ \E n \in 0..MaxOpenNotes : \E notes \in OpenNotes(n) : \E names \in OpenNames :
          project' = refresh_channel_table(
                        MidiProject(DefaultTicksPerBeat, notes, EmptyMap, DefaultTempoBpm, names, {}))
    /\ Frame

\* MainWindow.set_channel_instrument_id
SetChannelInstrumentId ==
    /\ op # "init"
    /\ \E ch \in Channels : \E inst_id \in InstrumentIds :
          /\ args' = [ch |-> ch, inst_id |-> inst_id]
          /\ project' = IF ch = DrumChannel THEN project
                         ELSE [project EXCEPT !.channel_instrument_id = MapSet(@, ch, inst_id)]
    /\ op' = "set_channel_instrument_id"
    /\ Frame

\* MainWindow.delete_selected_channel_contents
DeleteChannel ==
    /\ op # "init"
    /\ \E ch \in Channels :
          /\ args' = [ch |-> ch]
          /\ project' = refresh_channel_table(delete_channel(project, ch))
    /\ op' = "delete_channel"
    /\ Frame

\* MainWindow.merge_channels_dialog
MergeChannels ==
    /\ op # "init"
    /\ Len(used_channels(project)) >= 2
    /\ \E src \in Channels : \E dst \in Channels :
          /\ args' = [src |-> src, dst |-> dst]
          /\ project' = refresh_channel_table(merge_channel_into(project, src, dst))
    /\ op' = "merge_channel_into"
    /\ Frame

\* MainWindow.swap_channels_dialog
SwapChannels ==
    /\ op # "init"
    /\ Len(used_channels(project)) >= 2
    /\ \E a \in Channels : \E b \in Channels :
          /\ args' = [a |-> a, b |-> b]
          /\ project' = refresh_channel_table(swap_channels(project, a, b))
    /\ op' = "swap_channels"
    /\ Frame

Next == OpenMidi \/ SetChannelInstrumentId \/ DeleteChannel \/ MergeChannels \/ SwapChannels

Spec == Init /\ [][Next]_vars

----------------------------------------------------------------------------
(* The claims about the channel operations. *)

\* C6: swap_channels(a, b) applied twice to the project restores it: every note
\* has its channel again, and channel_instrument_id and channel_track_name have
\* the keys and values they had.
C6_SwapTwiceRestores ==
    \A a \in Channels \cup {10} : \A b \in Channels \cup {10} :
        swap_channels(swap_channels(project, a, b), a, b) = project

\* C6 witness: an open project, reached through a swap, with notes on channels 0
\* and 9, an instrument on 0 and none on 1, a label on 9 and none on 0.
C6_Witness ==
    /\ op = "swap_channels"
    /\ {0, DrumChannel} \subseteq {project.notes[i].channel : i \in 1..Len(project.notes)}
    /\ 0 \in DOMAIN project.channel_instrument_id
    /\ 1 \notin DOMAIN project.channel_instrument_id
    /\ DrumChannel \in DOMAIN project.channel_track_name
    /\ 0 \notin DOMAIN project.channel_track_name

\* C10 as stated: whatever the handlers did to the open project, channel 9 is no
\* key of channel_instrument_id.
C10_NoInstrumentOnChannel9 == DrumChannel \notin DOMAIN project.channel_instrument_id

\* A dict after the call has, outside the keys in K, the entries it had before.
SameOutside(before, after, K) ==
    /\ DOMAIN after \ K = DOMAIN before \ K
    /\ \A c \in DOMAIN before \ K : after[c] = before[c]

\* C20: merge_channel_into(src, dst) with src # dst leaves no note on src, puts
\* every note of src on dst and changes no other note; removes src from
\* channel_instrument_id and leaves the entry of dst as it was, absent included;
\* gives dst the label of src only if dst had none and src had one, and removes
\* the label of src.
C20_MergeChannelInto ==
    \A src \in Channels \cup {10} : \A dst \in Channels \cup {10} :
        src # dst =>
            LET q == merge_channel_into(project, src, dst)
                ids == project.channel_instrument_id
                names == project.channel_track_name
            IN /\ Len(q.notes) = Len(project.notes)
               /\ \A i \in 1..Len(q.notes) :
                     /\ q.notes[i].channel # src
                     /\ project.notes[i].channel = src => q.notes[i].channel = dst
                     /\ project.notes[i].channel # src => q.notes[i] = project.notes[i]
                     /\ [q.notes[i] EXCEPT !.channel = 0] = [project.notes[i] EXCEPT !.channel = 0]
               /\ src \notin DOMAIN q.channel_instrument_id
               /\ SameOutside(ids, q.channel_instrument_id, {src})
               /\ src \notin DOMAIN q.channel_track_name
               /\ SameOutside(names, q.channel_track_name, {src, dst})
               /\ IF dst \in DOMAIN names
                  THEN dst \in DOMAIN q.channel_track_name /\ q.channel_track_name[dst] = names[dst]
                  ELSE IF src \in DOMAIN names
                  THEN dst \in DOMAIN q.channel_track_name /\ q.channel_track_name[dst] = names[src]
                  ELSE dst \notin DOMAIN q.channel_track_name
               /\ q.ticks_per_beat = project.ticks_per_beat
               /\ q.tempo_bpm = project.tempo_bpm
               /\ q.muted_channels = project.muted_channels

\* C20 witness: the open project after channel 0, which had notes, an
\* instrument and the label "Lead", was merged into channel 9, which had notes,
\* no instrument and no label.
C20_Witness ==
    /\ op = "merge_channel_into"
    /\ args.src = 0 /\ args.dst = DrumChannel
    /\ Len(project.notes) = 2
    /\ \A i \in 1..Len(project.notes) : project.notes[i].channel = DrumChannel
    /\ project.channel_instrument_id = EmptyMap
    /\ DOMAIN project.channel_track_name = {DrumChannel}
    /\ project.channel_track_name[DrumChannel] = "Lead"

----------------------------------------------------------------------------
(* The drum remapper: note lists and target drumsets. *)

RemapPitches == {36, 38, 40, 60}
RemapNotes == {NoteEvent(0, 1, p, 100, c, 0) : p \in RemapPitches, c \in {0, DrumChannel}}

DrumKeys == {36, 38, 60}
DrumDefs ==
    {DrumDef("Drum", "kick"), DrumDef("Drum", "snare"), DrumDef("Drum", "empty"),
     DrumDef("Empty Slot", "kick"), DrumDef("Drum", "")}

\* Every drumset over DrumKeys: each key absent or with one of the DrumDefs.
Drumsets == UNION {[keys -> DrumDefs] : keys \in SUBSET DrumKeys}

InitRemap ==
    /\ op = "project"
    /\ args = NoArgs
    /\ mid = NoFile
    /\ \E n \in 0..MaxRemapNotes : \E notes \in [1..n -> RemapNotes] :
          project = MidiProject(DefaultTicksPerBeat, notes, EmptyMap, DefaultTempoBpm, EmptyMap, {})
    /\ warnings = <<>>
    /\ raised = FALSE
    /\ rs_drums_by_note \in Drumsets
    /\ changed = 0
    /\ unmapped = {}

\* A call of remap_channel_9_notes_in_place(project.notes, rs_drums_by_note)
Remap ==
    /\ op = "project"
    /\ op' = "remap_channel_9_notes_in_place"
    /\ LET r == remap_channel_9_notes_in_place(project.notes, rs_drums_by_note)
       IN /\ project' = [project EXCEPT !.notes = r.notes]
          /\ changed' = r.changed
          /\ unmapped' = r.unmapped
    /\ UNCHANGED <<args, mid, warnings, raised, rs_drums_by_note>>

\* A second call in succession, on the same list and drumset
RemapAgain ==
    /\ op = "remap_channel_9_notes_in_place"
    /\ op' = "remap_again"
    /\ LET r == remap_channel_9_notes_in_place(project.notes, rs_drums_by_note)
       IN /\ project' = [project EXCEPT !.notes = r.notes]
          /\ changed' = r.changed
          /\ unmapped' = r.unmapped
    /\ UNCHANGED <<args, mid, warnings, raised, rs_drums_by_note>>

NextRemap == Remap \/ RemapAgain

SpecRemap == InitRemap /\ [][NextRemap]_vars

\* C7 as stated: for every note list and target drumset the second of two
\* remaps in succession changes no pitch and returns a changed count of 0.
C7_RemapTwiceChangesNothing == op = "remap_again" => changed = 0

\* A call of the remapper: the step to the list and the results it leaves.
RemapStep == op' # op /\ op' \in {"remap_channel_9_notes_in_place", "remap_again"}

\* C23: remap_channel_9_notes_in_place removes and adds no note and changes no
\* note of another channel than 9; a note of channel 9 whose pitch is neither a
\* source of the derived mapping nor a key of the target drumset keeps its pitch,
\* and the returned unmapped set is exactly the set of those pitches; so after
\* the call every pitch of channel 9 is a key of the drumset or in that set.
C23_RemapKeepsUnmapped ==
    [][RemapStep =>
        LET before == project.notes
            after == project'.notes
            gm_to_rs == build_gm_to_rs(rs_drums_by_note)
            stray == {i \in 1..Len(before) :
                         /\ before[i].channel = 9
                         /\ before[i].pitch \notin DOMAIN gm_to_rs
                         /\ before[i].pitch \notin DOMAIN rs_drums_by_note}
        IN /\ Len(after) = Len(before)
           /\ \A i \in 1..Len(before) :
                 /\ [after[i] EXCEPT !.pitch = 0] = [before[i] EXCEPT !.pitch = 0]
                 /\ before[i].channel # 9 => after[i] = before[i]
                 /\ i \in stray => after[i] = before[i]
           /\ unmapped' = {before[i].pitch : i \in stray}
           /\ \A i \in 1..Len(after) :
                 after[i].channel = 9 =>
                    after[i].pitch \in DOMAIN rs_drums_by_note \cup unmapped']_vars

\* C23 witness: a call on a list with a channel-9 note the drumset has no place
\* for (pitch 60) and one it remapped.
C23_Witness ==
    /\ op = "remap_channel_9_notes_in_place"
    /\ unmapped = {60}
    /\ changed = 1
    /\ Len(project.notes) = 2
    /\ \E i \in 1..2 : project.notes[i].channel = 9 /\ project.notes[i].pitch = 60

----------------------------------------------------------------------------
(* midi_editor/models.py: the channel methods called on projects of any      *)
(* mapping, label and mute set.                                               *)

\* The notes drawn: the i-th spans ticks i-1..i and has pitch 59 + i.
ModelNotes(n) ==
    {[i \in 1..n |-> NoteEvent(i - 1, i, 59 + i, 100, chans[i], 0)] : chans \in [1..n -> Channels]}

ModelIds ==
    {EmptyMap,
     [c \in {0} |-> 7],
     [c \in {0, 1} |-> IF c = 0 THEN 7 ELSE 0],
     [c \in {DrumChannel} |-> 7]}

ModelMuted == {{}, {0}, {0, 1}}

ModelArgChannels == Channels \cup {10}

InitModel ==
    /\ op = "project"
    /\ args = NoArgs
    /\ mid = NoFile
    /\ \E n \in 0..MaxOpenNotes : \E notes \in ModelNotes(n) : \E ids \in ModelIds :
          \E names \in OpenNames : \E muted \in ModelMuted : \E bpm \in {90, DefaultTempoBpm} :
             project = MidiProject(DefaultTicksPerBeat, notes, ids, bpm, names, muted)
    /\ Idle

\* project.delete_channel(ch)
ModelDelete ==
    /\ op = "project"
    /\ \E ch \in ModelArgChannels :
          /\ args' = [project |-> project, ch |-> ch]
          /\ project' = delete_channel(project, ch)
    /\ op' = "delete_channel"
    /\ Frame

\* project.merge_channel_into(src, dst)
ModelMerge ==
    /\ op = "project"
    /\ \E src \in ModelArgChannels : \E dst \in ModelArgChannels :
          /\ args' = [project |-> project, src |-> src, dst |-> dst]
          /\ project' = merge_channel_into(project, src, dst)
    /\ op' = "merge_channel_into"
    /\ Frame

\* project.swap_channels(a, b)
ModelSwap ==
    /\ op = "project"
    /\ \E a \in ModelArgChannels : \E b \in ModelArgChannels :
          /\ args' = [project |-> project, a |-> a, b |-> b]
          /\ project' = swap_channels(project, a, b)
    /\ op' = "swap_channels"
    /\ Frame

NextModel == ModelDelete \/ ModelMerge \/ ModelSwap

SpecModel == InitModel /\ [][NextModel]_vars

\* The entries of a and b of a dict are exchanged: what a had b has, what b had
\* a has, an absent entry making the other absent; the other keys are as before.
Exchanged(before, after, a, b) ==
    /\ (b \in DOMAIN after) = (a \in DOMAIN before)
    /\ (a \in DOMAIN after) = (b \in DOMAIN before)
    /\ a \in DOMAIN before => after[b] = before[a]
    /\ b \in DOMAIN before => after[a] = before[b]
    /\ SameOutside(before, after, {a, b})

\* C21: swap_channels(a, b) with a # b moves every note of a to b and every note
\* of b to a, no note twice and no other note at all, and exchanges the entries
\* of a and b in channel_instrument_id and in channel_track_name, an entry absent
\* on one side being absent on the other afterwards.
C21_SwapExchanges ==
    (op = "swap_channels" /\ args.a # args.b) =>
        LET p == args.project
        IN /\ Len(project.notes) = Len(p.notes)
           /\ \A i \in 1..Len(p.notes) :
                 project.notes[i] =
                    [p.notes[i] EXCEPT !.channel = IF @ = args.a THEN args.b
                                                    ELSE IF @ = args.b THEN args.a ELSE @]
           /\ Exchanged(p.channel_instrument_id, project.channel_instrument_id, args.a, args.b)
           /\ Exchanged(p.channel_track_name, project.channel_track_name, args.a, args.b)

\* C21 witness: a swap of 0 and 1 on a project with notes on both, where only
\* channel 0 had an instrument and a label: afterwards only channel 1 has them.
C21_Witness ==
    /\ op = "swap_channels"
    /\ args.a = 0 /\ args.b = 1
    /\ {args.project.notes[i].channel : i \in 1..Len(args.project.notes)} = {0, 1}
    /\ DOMAIN args.project.channel_instrument_id = {0}
    /\ DOMAIN args.project.channel_track_name = {0}
    /\ DOMAIN project.channel_instrument_id = {1}
    /\ DOMAIN project.channel_track_name = {1}

\* C22: delete_channel(ch) removes exactly the notes of channel ch, the others
\* staying in their order; removes ch from channel_instrument_id and
\* channel_track_name and leaves the other entries as they were; a second
\* delete_channel(ch) changes nothing.
C22_DeleteChannel ==
    op = "delete_channel" =>
        LET p == args.project
        IN /\ project.notes = SelectSeq(p.notes, LAMBDA n : n.channel # args.ch)
           /\ args.ch \notin DOMAIN project.channel_instrument_id
           /\ args.ch \notin DOMAIN project.channel_track_name
           /\ SameOutside(p.channel_instrument_id, project.channel_instrument_id, {args.ch})
           /\ SameOutside(p.channel_track_name, project.channel_track_name, {args.ch})
           /\ delete_channel(project, args.ch) = project

\* C22 witness: channel 0, with the first of two notes, an instrument and a
\* label, was deleted from a project that has the same for channel 1.
C22_Witness ==
    /\ op = "delete_channel"
    /\ args.ch = 0
    /\ Len(args.project.notes) = 2 /\ Len(project.notes) = 1
    /\ args.project.notes[1].channel = 0
    /\ DOMAIN args.project.channel_instrument_id = {0, 1}
    /\ DOMAIN args.project.channel_track_name = {0, 1}
    /\ DOMAIN project.channel_instrument_id = {1}

\* C30: delete_channel, merge_channel_into and swap_channels leave
\* muted_channels, tempo_bpm and ticks_per_beat as they were and change of no
\* note the start_tick, end_tick, pitch, velocity or place in the list (merge and
\* swap keep every note, delete keeps the others in order); so after
\* swap_channels(a, b) a mute set on a still names a.
C30_ChannelMethodsFrame ==
    op \in {"delete_channel", "merge_channel_into", "swap_channels"} =>
        LET p == args.project
        IN /\ project.muted_channels = p.muted_channels
           /\ project.tempo_bpm = p.tempo_bpm
           /\ project.ticks_per_beat = p.ticks_per_beat
           /\ IF op = "delete_channel"
              THEN \E kept \in SUBSET (1..Len(p.notes)) :
                      /\ Len(project.notes) = Cardinality(kept)
                      /\ \A i \in kept :
                            project.notes[Cardinality({j \in kept : j <= i})] = p.notes[i]
              ELSE /\ Len(project.notes) = Len(p.notes)
                   /\ \A i \in 1..Len(p.notes) :
                         [project.notes[i] EXCEPT !.channel = 0] = [p.notes[i] EXCEPT !.channel = 0]

\* C30 witness: channels 0 and 1 were swapped in a project with channel 0 muted
\* and a note on it: the note is on channel 1 and the mute still names 0.
C30_Witness ==
    /\ op = "swap_channels"
    /\ args.a = 0 /\ args.b = 1
    /\ args.project.muted_channels = {0}
    /\ Len(project.notes) >= 1
    /\ args.project.notes[1].channel = 0
    /\ project.notes[1].channel = 1
    /\ project.muted_channels = {0}

====
